---- MODULE Spec2Model ----
(***************************************************************************)
(* Job Manager of the Rabbit Hole backend (backend/main.py,                *)
(* backend/storage.py): the learning-plan job store, the Enqueue handler   *)
(* generate_learning_plan, the polling handler get_learning_plan_status    *)
(* and the background task process_learning_plan, all on one asyncio event *)
(* loop.                                                                   *)
(*                                                                         *)
(* Stream Relay of the same backend: the four streaming endpoints          *)
(* chat_stream, formula_explain, figure_explain, equation_explain, the     *)
(* adapter iterate_in_thread, the non-streaming equation_annotate, and the *)
(* conversation chat_stream assembles for the provider.                    *)
(*                                                                         *)
(* Python dicts are functions with a domain of string keys; every value    *)
(* stored in a dict is a string.                                           *)
(***************************************************************************)
EXTENDS Integers, Sequences, FiniteSets, TLC

VARIABLES
    jobs_storage,   \* content of data/jobs.json: job id -> job record
    tasks,          \* the tasks made by asyncio.create_task, in creation order
    running,        \* index of the task that holds the event loop, 0 when idle
    polled,         \* the last get_learning_plan_status call: its job id and response
    sessions,       \* the relay sessions: session id -> request, position, frames
    loop,           \* id of the session whose generator holds the event loop, 0 when none
    chat_request,   \* a ChatRequest whose conversation is assembled
    contents,       \* the conversation assembled from chat_request
    ratio,          \* request.aspect_ratio of an equation_annotate request, in hundredths
    aspect_ratio_str,   \* the aspect ratio equation_annotate asks the provider for
    iterable,       \* the sync iterable handed to iterate_in_thread
    iteration       \* the iterate_in_thread generator over it: position, pulls, yields

job_vars == <<jobs_storage, tasks, running, polled>>
relay_vars == <<sessions, loop>>
assembly_vars == <<chat_request, contents>>
annotate_vars == <<ratio, aspect_ratio_str>>
iterate_vars == <<iterable, iteration>>
vars == <<job_vars, relay_vars, assembly_vars, annotate_vars, iterate_vars>>

-----------------------------------------------------------------------------
(* Bounds of the model.                                                    *)

\* Number of generate_learning_plan calls in a run.
MaxJobs == 2
\* Number of distinct values of the first 8 hex digits of a uuid.
NHeads == 2

\* The values of uuid4().hex[:8]: uuid4() draws at random, and two uuids that
\* differ may still agree on their first 8 hex digits.
Hex8Space == 1..NHeads

\* LearningPlanRequest payloads.  The payload is stored in the record and fed
\* to the prompt; it takes no part in the control flow of the job.
Requests == {"paper A"}

-----------------------------------------------------------------------------
(* Python values.                                                          *)

None == ("NoneType" :> "None")

EmptyDict == [k \in {} |-> "x"]

\* bool(x) of a dict or None.
Truthy(x) == x # None /\ DOMAIN x # {}

\* d[k] = v
DictSet(d, k, v) == [x \in (DOMAIN d) \cup {k} |-> IF x = k THEN v ELSE d[x]]

\* d.get(k, default)
DictGet(d, k, default) == IF k \in DOMAIN d THEN d[k] ELSE default

-----------------------------------------------------------------------------
(* storage.py: JSONStorage on data/jobs.json.  `file` is the parsed        *)
(* content of the file.                                                    *)

JSONStorage_read(file) == file

JSONStorage_write(file, data) == data

JSONStorage_get(file, key, default) ==
    LET data == JSONStorage_read(file)
    IN  IF key \in DOMAIN data THEN data[key] ELSE default

\* Faulty variant of JSONStorage_set: it writes the one key alone.
JSONStorage_set_alone(file, key, value) ==
    JSONStorage_write(file, [k \in {key} |-> value])

JSONStorage_set(file, key, value) ==
    LET data == JSONStorage_read(file)
    IN  JSONStorage_write(file, [k \in (DOMAIN data) \cup {key} |->
                                    IF k = key THEN value ELSE data[k]])

-----------------------------------------------------------------------------
(* main.py: job ids.                                                       *)

\* f"lp_{uuid4().hex[:8]}", with h the 8 hex digits drawn.
job_id_of(h) == "lp_" \o ToString(h)

\* Every job id generate_learning_plan can produce.
JobIds == {job_id_of(h) : h \in Hex8Space}

\* The ids a client may poll: the producible ones and one that is not.
QueryIds == JobIds \cup {"lp_unknown"}

-----------------------------------------------------------------------------
(* main.py: the Enqueue handler.                                           *)

\* generate_learning_plan(request), with h the value of uuid4().hex[:8].
\* `file` is jobs.json after the handler, `response` the LearningPlanResponse.
generate_learning_plan(file, h, request) ==
    LET job_id == job_id_of(h)
    IN  [job_id   |-> job_id,
         file     |-> JSONStorage_set(file, job_id,
                          [status |-> "queued", request |-> request]),
         response |-> [job_id |-> job_id, status |-> "processing"]]

-----------------------------------------------------------------------------
(* main.py: the polling handler.                                           *)

\* HTTPException(status_code=404, detail="Job ID not found")
HTTP404 == [status_code |-> "404", detail |-> "Job ID not found"]

\* The value a dict's get() returns for a missing key with no default (JSON null).
Null == "null"

\* Faulty variant of get_learning_plan_status: it answers an unknown id as queued.
get_learning_plan_status_no404(file, job_id) ==
    LET job == JSONStorage_get(file, job_id, None)
    IN  [response |-> [job_id |-> job_id,
                       status |-> IF Truthy(job) THEN job["status"] ELSE "queued"],
         file     |-> file]

\* Faulty variant of get_learning_plan_status: it returns progress with every status.
get_learning_plan_status_progress(file, job_id) ==
    LET job == JSONStorage_get(file, job_id, None)
    IN  IF ~Truthy(job)
        THEN [response |-> HTTP404, file |-> file]
        ELSE LET response == DictSet([job_id |-> job_id, status |-> job["status"]],
                                     "progress",
                                     DictGet(job, "progress", "Analyzing paper..."))
             IN  [response |->
                      IF job["status"] = "complete"
                      THEN DictSet(response, "plan", DictGet(job, "plan", Null))
                      ELSE IF job["status"] = "failed"
                      THEN DictSet(response, "error",
                                   DictGet(job, "error", "Unknown error"))
                      ELSE response,
                  file |-> file]

\* Faulty variant of get_learning_plan_status: it stamps the record it reads.
get_learning_plan_status_touch(file, job_id) ==
    LET job == JSONStorage_get(file, job_id, None)
    IN  IF ~Truthy(job)
        THEN [response |-> HTTP404, file |-> file]
        ELSE [response |-> [job_id |-> job_id, status |-> job["status"]],
              file     |-> JSONStorage_set(file, job_id,
                                           DictSet(job, "polled", "yes"))]

\* get_learning_plan_status(job_id): `response` is the body returned (or the
\* 404 raised), `file` is jobs.json after the handler.
get_learning_plan_status(file, job_id) ==
    LET job == JSONStorage_get(file, job_id, None)
    IN  IF ~Truthy(job)
        THEN [response |-> HTTP404, file |-> file]
        ELSE LET response == [job_id |-> job_id, status |-> job["status"]]
             IN  [response |->
                      IF job["status"] = "processing"
                      THEN DictSet(response, "progress",
                                   DictGet(job, "progress", "Analyzing paper..."))
                      ELSE IF job["status"] = "complete"
                      THEN DictSet(response, "plan", DictGet(job, "plan", Null))
                      ELSE IF job["status"] = "failed"
                      THEN DictSet(response, "error",
                                   DictGet(job, "error", "Unknown error"))
                      ELSE response,
                  file |-> file]

-----------------------------------------------------------------------------
(* main.py: the background task process_learning_plan.                     *)

\* Texts the provider's generate_content may return as response.text.
ProviderTexts == {"{\"weeks\": 4}", "{\"weeks\": 8}", "Here is your plan:"}

\* str(e) of the exceptions generate_content may raise; str() of an exception
\* made without a message (a timeout, for one) is the empty string.
ProviderErrors == {"503 UNAVAILABLE", ""}

\* str(e) of the KeyError that str.format raises on a template field that
\* the call does not supply.
FormatError == "'level'"

\* json.loads(text): the parsed value, or the JSONDecodeError raised.
json_loads(text) ==
    IF text = "{\"weeks\": 4}" THEN [ok |-> TRUE, value |-> "dict(weeks=4)"]
    ELSE IF text = "{\"weeks\": 8}" THEN [ok |-> TRUE, value |-> "dict(weeks=8)"]
    ELSE [ok |-> FALSE, value |-> "Expecting value: line 1 column 1 (char 0)"]

\* str(e) of the TypeError raised by item assignment on None.
NoneItemError == "'NoneType' object does not support item assignment"

\* Faulty variant of process_learning_plan_except: it marks its copy failed
\* and does not write it.
process_learning_plan_except_nowrite(file, job_id, e) ==
    LET got      == JSONStorage_get(file, job_id, None)
        job_data == IF Truthy(got) THEN got ELSE EmptyDict
        failed   == DictSet(DictSet(job_data, "status", "failed"), "error", e)
    IN  [job_data |-> failed, file |-> file, raised |-> TRUE]

\* The except branch: the record is read again, marked failed and written.
process_learning_plan_except(file, job_id, e) ==
    LET got      == JSONStorage_get(file, job_id, None)
        job_data == IF Truthy(got) THEN got ELSE EmptyDict
        failed   == DictSet(DictSet(job_data, "status", "failed"), "error", e)
    IN  [job_data |-> failed, file |-> JSONStorage_set(file, job_id, failed),
         raised |-> TRUE]

\* The first block of the try: status processing, first progress message.
process_learning_plan_start(file, job_id) ==
    LET job_data == JSONStorage_get(file, job_id, None)
    IN  IF job_data = None
        THEN process_learning_plan_except(file, job_id, NoneItemError)
        ELSE LET d == DictSet(DictSet(job_data, "status", "processing"),
                              "progress", "Researching prerequisites...")
             IN  [job_data |-> d, file |-> JSONStorage_set(file, job_id, d),
                  raised |-> FALSE]

\* The second progress message, written before the provider call.
process_learning_plan_research(file, job_id, job_data) ==
    LET d == DictSet(job_data, "progress", "Running deep research...")
    IN  [job_data |-> d, file |-> JSONStorage_set(file, job_id, d),
         raised |-> FALSE]

\* The end of the try: the provider returned `text`.
process_learning_plan_finish(file, job_id, job_data, text) ==
    LET plan_data == json_loads(text)
    IN  IF ~plan_data.ok
        THEN process_learning_plan_except(file, job_id, plan_data.value)
        ELSE LET d == DictSet(DictSet(job_data, "status", "complete"),
                              "plan", plan_data.value)
             IN  [job_data |-> d, file |-> JSONStorage_set(file, job_id, d),
                  raised |-> FALSE]

-----------------------------------------------------------------------------
(* main.py: the Stream Relay.  A chunk of the provider's stream is the     *)
(* record of its text (None for a null chunk); a frame is the JSON object  *)
(* of one "data: ...\n\n" line, a record of strings.                       *)

\* The relay sessions of a run.
SessionIds == {1, 2}
\* Number of chunks the provider's stream yields in a session.
MaxChunks == 2

StreamEndpoints ==
    {"chat_stream", "formula_explain", "figure_explain", "equation_explain"}

\* The endpoints that iterate the provider's stream inline: for chunk in response.
InlineEndpoints == {"formula_explain", "figure_explain", "equation_explain"}

\* Request payloads: the fields the handlers validate.  The optional fields
\* (page, caption, label, file_search_store_id) only shape the prompt.
ChatRequests == [question : {"", "why?"}, context : {"", "a passage"}]
FormulaRequests == [formula : {"", "E=mc^2"}]
FigureRequests == [image_base64 : {"", "iVBORw0KGgo="}]
EquationRequests == [image_base64 : {"", "iVBORw0KGgo="}]
EquationAnnotationRequests ==
    [image_base64 : {"", "iVBORw0KGgo="}, question : {"", "why?"}]

\* HTTPException(status_code=400, detail=detail)
HTTP400(detail) == [status_code |-> "400", detail |-> detail]
\* HTTPException(status_code=500, detail=detail)
HTTP500(detail) == [status_code |-> "500", detail |-> detail]
\* StreamingResponse(event_generator(), media_type="text/event-stream", ...)
StreamingResponse == [status_code |-> "200", media_type |-> "text/event-stream"]

\* Faulty variant of chat_stream_validate: it does not look at the context.
chat_stream_validate_question_only(request) ==
    IF request.question = ""
    THEN HTTP400("Both question and context are required")
    ELSE None

\* chat_stream, lines 233-234: the exception raised, None when none is.
chat_stream_validate(request) ==
    IF request.question = "" \/ request.context = ""
    THEN HTTP400("Both question and context are required")
    ELSE None

\* formula_explain, lines 317-318.
formula_explain_validate(request) ==
    IF request.formula = "" THEN HTTP400("Formula is required") ELSE None

\* figure_explain, lines 364-365.
figure_explain_validate(request) ==
    IF request.image_base64 = "" THEN HTTP400("image_base64 is required") ELSE None

\* equation_explain, lines 421-422.
equation_explain_validate(request) ==
    IF request.image_base64 = "" THEN HTTP400("image_base64 is required") ELSE None

\* equation_annotate, lines 477-480.
equation_annotate_validate(request) ==
    IF request.image_base64 = "" THEN HTTP400("image_base64 is required")
    ELSE IF request.question = "" THEN HTTP400("question is required")
    ELSE None

\* The n-th chunk of a provider stream: it carries the text "n", or no text,
\* or is null.
Chunks(n) == {[text |-> ToString(n)], [text |-> ""], None}

\* next(iterator) raises StopIteration.
StopIteration == [raised |-> "StopIteration"]

\* What the n-th next(iterator) does: it returns a chunk, raises
\* StopIteration, or raises a provider error.  The stream has at most
\* MaxChunks chunks.
ProviderOutcomes(n) ==
    (IF n <= MaxChunks THEN {[returned |-> c] : c \in Chunks(n)} ELSE {})
        \cup {StopIteration}
        \cup {[raised |-> e] : e \in ProviderErrors}

\* iterate_in_thread.get_next, lines 62-66.
get_next(outcome) ==
    IF outcome = StopIteration THEN [returned |-> None] ELSE outcome

\* json.dumps({"text": chunk.text})
TextFrame(text) == [text |-> text]
\* json.dumps({'done': True})
DoneFrame == [done |-> "true"]
\* json.dumps({"error": str(e)})
ErrorFrame(e) == [error |-> e]

\* str(e) of the AttributeError that None.text raises.
NoneTextError == "'NoneType' object has no attribute 'text'"

\* Faulty variant of event_generator_except: the done marker follows the error.
event_generator_except_done(frames, e) ==
    Append(Append(frames, ErrorFrame(e)), [done |-> "true"])

\* The except branch of an event_generator, lines 293-295 (344-346, 401-403,
\* 458-460): the error frame is yielded and the generator returns.
event_generator_except(frames, e) == Append(frames, ErrorFrame(e))

\* Faulty variant of event_generator_cancelled: the except branch takes the
\* cancellation for a failure and yields an error frame.
event_generator_cancelled_caught(frames) ==
    Append(frames, [error |-> ""])

\* The event_generator is cancelled at its await, or closed at its yield:
\* asyncio.CancelledError and GeneratorExit are not Exception, so the except
\* branch of lines 293-295 (344-346, 401-403, 458-460) does not run, there is
\* no finally, and the generator ends with no frame.
event_generator_cancelled(frames) == frames

\* Faulty variant of event_generator_done: the generator returns with no marker.
event_generator_done_silent(frames) == frames

\* Line 291 (342, 399, 456): the done marker is yielded and the generator
\* returns.
event_generator_done(frames) == Append(frames, DoneFrame)

\* Faulty variant of event_generator_chunk: the frame is put before the others.
event_generator_chunk_prepend(frames, chunk) ==
    IF chunk = None
    THEN [frames |-> event_generator_except(frames, NoneTextError), pc |-> "closed"]
    ELSE IF chunk.text # ""
    THEN [frames |-> <<TextFrame(chunk.text)>> \o frames, pc |-> "yielded"]
    ELSE [frames |-> frames, pc |-> "next"]

\* Faulty variant of event_generator_chunk: a chunk with no text gets a frame.
event_generator_chunk_always(frames, chunk) ==
    IF chunk = None
    THEN [frames |-> event_generator_except(frames, NoneTextError), pc |-> "closed"]
    ELSE [frames |-> Append(frames, TextFrame(chunk.text)), pc |-> "yielded"]

\* The body of the loop over the chunks, lines 287-289 (338-340, 395-397,
\* 452-454): a chunk with text is framed and yielded, a chunk with no text is
\* passed over, and reading the text of a null chunk raises into the except
\* branch.  pc is where the generator is afterwards.
event_generator_chunk(frames, chunk) ==
    IF chunk = None
    THEN [frames |-> event_generator_except(frames, NoneTextError), pc |-> "closed"]
    ELSE IF chunk.text # ""
    THEN [frames |-> Append(frames, TextFrame(chunk.text)), pc |-> "yielded"]
    ELSE [frames |-> frames, pc |-> "next"]

\* No asyncio.to_thread result is in hand.
NoResult == [state |-> "none"]

\* One pass of the loop of iterate_in_thread with the result of the thread in
\* hand, lines 68-73, and of the async for of chat_stream over it, lines
\* 286-295: an exception of the pull goes to the except branch, None ends the
\* iteration and the done marker follows, a chunk goes to the loop body.
chat_stream_event_generator(frames, result) ==
    IF "raised" \in DOMAIN result
    THEN [frames |-> event_generator_except(frames, result.raised), pc |-> "closed"]
    ELSE IF result.returned = None
    THEN [frames |-> event_generator_done(frames), pc |-> "closed"]
    ELSE event_generator_chunk(frames, result.returned)

\* One pass of for chunk in response, lines 337-346 (394-403, 451-460), with
\* the outcome of next(response): StopIteration ends the loop and the done
\* marker follows, another exception goes to the except branch, a chunk goes
\* to the loop body.
inline_event_generator(frames, outcome) ==
    IF outcome = StopIteration
    THEN [frames |-> event_generator_done(frames), pc |-> "closed"]
    ELSE IF "raised" \in DOMAIN outcome
    THEN [frames |-> event_generator_except(frames, outcome.raised), pc |-> "closed"]
    ELSE event_generator_chunk(frames, outcome.returned)

\* A session slot no request has reached.
IdleSession ==
    [endpoint |-> "", request |-> None, response |-> None, pc |-> "idle",
     provider_calls |-> 0, pulled |-> <<>>, ended |-> "", error |-> "",
     inflight |-> 0, result |-> NoResult, frames |-> <<>>]

-----------------------------------------------------------------------------
(* main.py: the aspect ratio of equation_annotate, lines 489-501.  A ratio *)
(* is a number of hundredths: 2.2 is 220, ratio > 2.2 is ratio > 220.      *)

\* The largest request.aspect_ratio, in hundredths; the smallest is its
\* negative (the field is a float with no validation).
MaxRatio == 300
Ratios == (0 - MaxRatio)..MaxRatio

\* Faulty variant of equation_annotate_aspect_ratio: 2.2 itself is widescreen.
equation_annotate_aspect_ratio_inclusive(r) ==
    IF r >= 220 THEN "16:9"
    ELSE IF r > 150 THEN "4:3"
    ELSE IF r > 90 THEN "1:1"
    ELSE IF r > 60 THEN "3:4"
    ELSE "9:16"

\* Lines 490-501: aspect_ratio_str for ratio r.
equation_annotate_aspect_ratio(r) ==
    IF r > 220 THEN "16:9"
    ELSE IF r > 150 THEN "4:3"
    ELSE IF r > 90 THEN "1:1"
    ELSE IF r > 60 THEN "3:4"
    ELSE "9:16"

-----------------------------------------------------------------------------
(* main.py: iterate_in_thread, lines 60-73, on its own.                    *)

\* The sync iterables: the n-th element is a chunk or None, and after the
\* last element next() raises StopIteration or an error.
RECURSIVE ElementSeqs(_)
ElementSeqs(n) ==
    IF n = 0 THEN {<<>>}
    ELSE LET shorter == ElementSeqs(n - 1)
         IN  shorter \cup {Append(q, c) : q \in {x \in shorter : Len(x) = n - 1},
                                          c \in Chunks(n)}

Iterables ==
    [elements : ElementSeqs(MaxChunks),
     end : {StopIteration} \cup {[raised |-> e] : e \in ProviderErrors}]

\* The n-th next(iterator): an iterator that has raised keeps raising
\* StopIteration.
iterator_next(it, n) ==
    IF n <= Len(it.elements) THEN [returned |-> it.elements[n]]
    ELSE IF n = Len(it.elements) + 1 THEN it.end
    ELSE StopIteration

\* Faulty variant of iterate_in_thread: None is yielded like a chunk.
iterate_in_thread_yield_none(yielded, result) ==
    IF "raised" \in DOMAIN result
    THEN [yielded |-> yielded, pc |-> "raised", error |-> result.raised]
    ELSE [yielded |-> Append(yielded, result.returned), pc |-> "yielded",
          error |-> ""]

\* One pass of the loop, lines 69-73, with the result of
\* asyncio.to_thread(get_next, iterator): an exception goes to the consumer,
\* None breaks the loop, a chunk is yielded.
iterate_in_thread(yielded, result) ==
    IF "raised" \in DOMAIN result
    THEN [yielded |-> yielded, pc |-> "raised", error |-> result.raised]
    ELSE IF result.returned = None
    THEN [yielded |-> yielded, pc |-> "stopped", error |-> ""]
    ELSE [yielded |-> Append(yielded, result.returned), pc |-> "yielded",
          error |-> ""]

\* No iterable, and the generator over it.
NoIterable == [elements |-> <<>>, end |-> StopIteration]
NewIteration ==
    [pc |-> "created", pulls |-> 0, result |-> NoResult, yielded |-> <<>>,
     error |-> ""]

-----------------------------------------------------------------------------
(* State machine.  process_learning_plan is a coroutine with no await: once *)
(* the event loop starts it, it runs to its end before any handler or any   *)
(* other task runs (`running`).  Its stores to jobs.json are separate steps.*)

\* The task asyncio.create_task(process_learning_plan(job_id, request)) makes:
\* its arguments, its position, its local job_data and the number of provider
\* calls it has made.
NewTask(job_id, request) ==
    [job_id |-> job_id, request |-> request, pc |-> "scheduled",
     job_data |-> None, calls |-> 0]

Init ==
    /\ jobs_storage = EmptyDict
    /\ tasks = <<>>
    /\ running = 0
    /\ polled = None
    /\ sessions = [s \in SessionIds |-> IdleSession]
    /\ loop = 0
    /\ chat_request = None
    /\ contents = <<>>
    /\ ratio = 0
    /\ aspect_ratio_str = ""
    /\ iterable = NoIterable
    /\ iteration = NewIteration

\* POST /api/learning-plan/generate
Enqueue(h, request) ==
    /\ running = 0
    /\ Len(tasks) < MaxJobs
    /\ LET r == generate_learning_plan(jobs_storage, h, request)
       IN  /\ jobs_storage' = r.file
           /\ tasks' = Append(tasks, NewTask(r.job_id, request))
    /\ UNCHANGED <<running, polled, relay_vars, assembly_vars, annotate_vars,
                 iterate_vars>>

\* GET /api/learning-plan/status/{job_id}
GetStatus(job_id) ==
    /\ running = 0
    /\ LET r == get_learning_plan_status(jobs_storage, job_id)
       IN  /\ polled' = [job_id |-> job_id, response |-> r.response]
           /\ jobs_storage' = r.file
    /\ UNCHANGED <<tasks, running, relay_vars, assembly_vars, annotate_vars,
                 iterate_vars>>

\* The task ends: the event loop is free, the task's locals are gone.
TaskEnds(t, calls) ==
    /\ tasks' = [tasks EXCEPT ![t].pc = "done", ![t].job_data = None,
                              ![t].calls = @ + calls]
    /\ running' = 0

\* The event loop starts task t: lines 632-635.
TaskStart(t) ==
    /\ running = 0
    /\ tasks[t].pc = "scheduled"
    /\ LET r == process_learning_plan_start(jobs_storage, tasks[t].job_id)
       IN  /\ jobs_storage' = r.file
           /\ IF r.raised
              THEN TaskEnds(t, 0)
              ELSE /\ tasks' = [tasks EXCEPT ![t].job_data = r.job_data,
                                             ![t].pc = "researching"]
                   /\ running' = t
    /\ UNCHANGED <<polled, relay_vars, assembly_vars, annotate_vars,
                 iterate_vars>>

\* Lines 638-648, the prompt is built: the second progress message is stored.
TaskResearch(t) ==
    /\ running = t
    /\ tasks[t].pc = "researching"
    /\ LET r == process_learning_plan_research(jobs_storage, tasks[t].job_id,
                                               tasks[t].job_data)
       IN  /\ jobs_storage' = r.file
           /\ tasks' = [tasks EXCEPT ![t].job_data = r.job_data,
                                     ![t].pc = "calling"]
    /\ UNCHANGED <<running, polled, relay_vars, assembly_vars, annotate_vars,
                 iterate_vars>>

\* Lines 638-644, str.format raises: the except branch runs.
TaskFormatRaises(t) ==
    /\ running = t
    /\ tasks[t].pc = "researching"
    /\ jobs_storage' = process_learning_plan_except(
                           jobs_storage, tasks[t].job_id, FormatError).file
    /\ TaskEnds(t, 0)
    /\ UNCHANGED <<polled, relay_vars, assembly_vars, annotate_vars,
                 iterate_vars>>

\* Lines 650-658, generate_content raises e: the except branch runs.
TaskProviderRaises(t, e) ==
    /\ running = t
    /\ tasks[t].pc = "calling"
    /\ jobs_storage' = process_learning_plan_except(
                           jobs_storage, tasks[t].job_id, e).file
    /\ TaskEnds(t, 1)
    /\ UNCHANGED <<polled, relay_vars, assembly_vars, annotate_vars,
                 iterate_vars>>

\* Lines 650-671, generate_content returns text: it is parsed and the job ends.
TaskProviderReturns(t, text) ==
    /\ running = t
    /\ tasks[t].pc = "calling"
    /\ jobs_storage' = process_learning_plan_finish(
                           jobs_storage, tasks[t].job_id, tasks[t].job_data,
                           text).file
    /\ TaskEnds(t, 1)
    /\ UNCHANGED <<polled, relay_vars, assembly_vars, annotate_vars,
                 iterate_vars>>

\* One step of task t.
TaskStep(t) ==
    \/ TaskStart(t)
    \/ TaskResearch(t)
    \/ TaskFormatRaises(t)
    \/ \E e \in ProviderErrors : TaskProviderRaises(t, e)
    \/ \E text \in ProviderTexts : TaskProviderReturns(t, text)

Next ==
    \/ \E h \in Hex8Space, request \in Requests : Enqueue(h, request)
    \/ \E job_id \in QueryIds : GetStatus(job_id)
    \/ \E t \in 1..Len(tasks) : TaskStart(t)
    \/ \E t \in 1..Len(tasks) : TaskResearch(t)
    \/ \E t \in 1..Len(tasks) : TaskFormatRaises(t)
    \/ \E t \in 1..Len(tasks), e \in ProviderErrors : TaskProviderRaises(t, e)
    \/ \E t \in 1..Len(tasks), text \in ProviderTexts :
           TaskProviderReturns(t, text)

Spec == Init /\ [][Next]_vars

\* The event loop runs every task it was given, and the provider call of a
\* running task returns or raises.
Fairness == \A t \in 1..MaxJobs : WF_vars(t \in 1..Len(tasks) /\ TaskStep(t))

LiveSpec == Spec /\ Fairness

-----------------------------------------------------------------------------
(* State machine of the Stream Relay.  A handler runs on the event loop to *)
(* its return.  An event_generator runs on the event loop from one yield   *)
(* to the next; chat_stream leaves the loop while a thread pulls the next  *)
(* chunk (await asyncio.to_thread), the inline endpoints call              *)
(* next(response) on the loop and hold it until the chunk is there         *)
(* (`loop`).                                                               *)

\* A streaming handler answers `request`: it raises the exception e of its
\* validation, or returns the StreamingResponse over its event_generator,
\* which has not started.
OpenStream(session, endpoint, request, e) ==
    [session EXCEPT !.endpoint = endpoint,
                    !.request = request,
                    !.response = IF e # None THEN e ELSE StreamingResponse,
                    !.pc = IF e # None THEN "rejected" ELSE "open"]

\* POST /api/chat/stream, lines 225-304.
ChatStream(s, request) ==
    /\ running = 0
    /\ loop = 0
    /\ sessions[s].pc = "idle"
    /\ sessions' = [sessions EXCEPT ![s] =
           OpenStream(@, "chat_stream", request, chat_stream_validate(request))]
    /\ UNCHANGED <<loop, job_vars, assembly_vars, annotate_vars,
                 iterate_vars>>

\* GET /api/chat/formula, lines 307-355.
FormulaExplain(s, request) ==
    /\ running = 0
    /\ loop = 0
    /\ sessions[s].pc = "idle"
    /\ sessions' = [sessions EXCEPT ![s] =
           OpenStream(@, "formula_explain", request, formula_explain_validate(request))]
    /\ UNCHANGED <<loop, job_vars, assembly_vars, annotate_vars,
                 iterate_vars>>

\* POST /api/chat/figure, lines 358-412.
FigureExplain(s, request) ==
    /\ running = 0
    /\ loop = 0
    /\ sessions[s].pc = "idle"
    /\ sessions' = [sessions EXCEPT ![s] =
           OpenStream(@, "figure_explain", request, figure_explain_validate(request))]
    /\ UNCHANGED <<loop, job_vars, assembly_vars, annotate_vars,
                 iterate_vars>>

\* POST /api/chat/equation, lines 415-469.
EquationExplain(s, request) ==
    /\ running = 0
    /\ loop = 0
    /\ sessions[s].pc = "idle"
    /\ sessions' = [sessions EXCEPT ![s] =
           OpenStream(@, "equation_explain", request, equation_explain_validate(request))]
    /\ UNCHANGED <<loop, job_vars, assembly_vars, annotate_vars,
                 iterate_vars>>

\* What client.models.generate_content gives equation_annotate: a response
\* with an image, a response with none, or an exception.
AnnotationOutcomes ==
    {[image |-> "iVBORw0KGgoAAA=="], [image |-> ""]}
        \cup {[raised |-> e] : e \in ProviderErrors}

\* POST /api/equation/annotate, lines 472-574: the handler has no await, it
\* runs to its return on the event loop, the provider call included.
EquationAnnotate(s, request, outcome) ==
    /\ running = 0
    /\ loop = 0
    /\ sessions[s].pc = "idle"
    /\ LET e == equation_annotate_validate(request)
           response ==
               IF e # None THEN e
               ELSE IF "raised" \in DOMAIN outcome THEN HTTP500(outcome.raised)
               ELSE IF outcome.image = ""
               THEN HTTP500("No image returned from model")
               ELSE [status_code |-> "200", image_base64 |-> outcome.image]
       IN  sessions' = [sessions EXCEPT ![s] =
               [@ EXCEPT !.endpoint = "equation_annotate",
                         !.request = request,
                         !.response = response,
                         !.provider_calls = IF e # None THEN 0 ELSE 1,
                         !.pc = IF e # None THEN "rejected" ELSE "answered"]]
    /\ UNCHANGED <<loop, job_vars, assembly_vars, annotate_vars,
                 iterate_vars>>

\* Building the request raises: the text of the exception.
BuildErrors == {"Incorrect padding"}

\* The server starts event_generator of session s, and building the request
\* raises e: lines 237-284 (321-335, 368-392, 425-449) and the except branch.
GeneratorBuildRaises(s, e) ==
    /\ running = 0
    /\ loop = 0
    /\ sessions[s].pc = "open"
    /\ sessions' = [sessions EXCEPT ![s] =
           [@ EXCEPT !.frames = event_generator_except(@, e),
                     !.ended = "build",
                     !.error = e,
                     !.pc = "closed"]]
    /\ UNCHANGED <<loop, job_vars, assembly_vars, annotate_vars,
                 iterate_vars>>

\* The server starts event_generator of session s: the request is built and
\* generate_content_stream is called.  chat_stream hands the first pull to a
\* thread and leaves the loop (line 70); an inline endpoint begins
\* next(response) on the loop.
GeneratorStart(s) ==
    /\ running = 0
    /\ loop = 0
    /\ sessions[s].pc = "open"
    /\ IF sessions[s].endpoint = "chat_stream"
       THEN /\ sessions' = [sessions EXCEPT ![s] =
                   [@ EXCEPT !.provider_calls = 1,
                             !.inflight = @ + 1,
                             !.pc = "awaiting"]]
            /\ loop' = 0
       ELSE /\ sessions' = [sessions EXCEPT ![s] =
                   [@ EXCEPT !.provider_calls = 1, !.pc = "pulling"]]
            /\ loop' = s
    /\ UNCHANGED <<job_vars, assembly_vars, annotate_vars,
                 iterate_vars>>

\* The provider's side of a pull: what the session has seen the stream do.
Pulled(session, outcome) ==
    [session EXCEPT
        !.pulled = IF "returned" \in DOMAIN outcome
                   THEN Append(@, outcome.returned) ELSE @,
        !.ended = IF outcome = StopIteration THEN "StopIteration"
                  ELSE IF "raised" \in DOMAIN outcome THEN "raised" ELSE @,
        !.error = IF "raised" \in DOMAIN outcome /\ outcome # StopIteration
                  THEN outcome.raised ELSE @]

\* The thread of asyncio.to_thread(get_next, iterator) of chat session s
\* runs next(iterator), off the event loop: lines 62-66.  A thread that has
\* started cannot be cancelled: it runs next(iterator) to its end also when
\* the generator that awaited it is cancelled, and its result is dropped then.
ThreadGetNext(s, outcome) ==
    /\ sessions[s].pc \in {"awaiting", "cancelled"}
    /\ sessions[s].inflight > 0
    /\ sessions[s].result = NoResult
    /\ sessions' = [sessions EXCEPT ![s] =
           [Pulled(@, outcome) EXCEPT
                !.result = IF sessions[s].pc = "cancelled"
                           THEN NoResult ELSE get_next(outcome),
                !.inflight = @ - 1]]
    /\ UNCHANGED <<loop, job_vars, assembly_vars, annotate_vars,
                 iterate_vars>>

\* The event loop resumes event_generator of chat session s with the result
\* of the thread: lines 70-73 and 286-295.  After a chunk with no text the
\* next pull goes to a thread at once.
ChatResume(s) ==
    /\ running = 0
    /\ loop = 0
    /\ sessions[s].pc = "awaiting"
    /\ sessions[s].result # NoResult
    /\ LET r == chat_stream_event_generator(sessions[s].frames, sessions[s].result)
       IN  sessions' = [sessions EXCEPT ![s] =
               [@ EXCEPT !.frames = r.frames,
                         !.result = NoResult,
                         !.inflight = IF r.pc = "next" THEN @ + 1 ELSE @,
                         !.pc = IF r.pc = "next" THEN "awaiting" ELSE r.pc]]
    /\ UNCHANGED <<loop, job_vars, assembly_vars, annotate_vars,
                 iterate_vars>>

\* next(response) of inline session s comes back, on the event loop: lines
\* 337-346 (394-403, 451-460).  The generator keeps the loop until it yields
\* or returns; after a chunk with no text it calls next(response) again.
InlineNext(s, outcome) ==
    /\ loop = s
    /\ sessions[s].pc = "pulling"
    /\ LET r == inline_event_generator(sessions[s].frames, outcome)
       IN  /\ sessions' = [sessions EXCEPT ![s] =
                   [Pulled(@, outcome) EXCEPT
                        !.frames = r.frames,
                        !.pc = IF r.pc = "next" THEN "pulling" ELSE r.pc]]
           /\ loop' = IF r.pc = "next" THEN s ELSE 0
    /\ UNCHANGED <<job_vars, assembly_vars, annotate_vars,
                 iterate_vars>>

\* The frame session s yielded is sent and the server resumes the generator:
\* the loop goes round to the next pull.
GeneratorResume(s) ==
    /\ running = 0
    /\ loop = 0
    /\ sessions[s].pc = "yielded"
    /\ IF sessions[s].endpoint = "chat_stream"
       THEN /\ sessions' = [sessions EXCEPT ![s] =
                   [@ EXCEPT !.inflight = @ + 1, !.pc = "awaiting"]]
            /\ loop' = 0
       ELSE /\ sessions' = [sessions EXCEPT ![s] = [@ EXCEPT !.pc = "pulling"]]
            /\ loop' = s
    /\ UNCHANGED <<job_vars, assembly_vars, annotate_vars,
                 iterate_vars>>

\* The client of session s has gone and the server sees it: the task that
\* streams the response (lines 297-304) is cancelled where it is suspended,
\* before the generator has started, at await asyncio.to_thread (line 70), or
\* at a yield.  An inline generator inside next(response) holds the event
\* loop, the server sees nothing until it yields.
Disconnect(s) ==
    /\ running = 0
    /\ loop = 0
    /\ sessions[s].pc \in {"open", "awaiting", "yielded"}
    /\ sessions' = [sessions EXCEPT ![s] =
           [@ EXCEPT !.frames = event_generator_cancelled(@),
                     !.result = NoResult,
                     !.pc = "cancelled"]]
    /\ UNCHANGED <<loop, job_vars, assembly_vars, annotate_vars, iterate_vars>>

\* A step of session s that needs the event loop.
LoopStep(s) ==
    \/ \E e \in BuildErrors : GeneratorBuildRaises(s, e)
    \/ GeneratorStart(s)
    \/ ChatResume(s)
    \/ GeneratorResume(s)

RelayNext ==
    \/ \E s \in SessionIds, request \in ChatRequests : ChatStream(s, request)
    \/ \E s \in SessionIds, request \in FormulaRequests :
           FormulaExplain(s, request)
    \/ \E s \in SessionIds, request \in FigureRequests :
           FigureExplain(s, request)
    \/ \E s \in SessionIds, request \in EquationRequests :
           EquationExplain(s, request)
    \/ \E s \in SessionIds, request \in EquationAnnotationRequests,
          outcome \in AnnotationOutcomes :
           EquationAnnotate(s, request, outcome)
    \/ \E s \in SessionIds, e \in BuildErrors : GeneratorBuildRaises(s, e)
    \/ \E s \in SessionIds : GeneratorStart(s)
    \/ \E s \in SessionIds :
           \E outcome \in ProviderOutcomes(Len(sessions[s].pulled) + 1) :
               ThreadGetNext(s, outcome)
    \/ \E s \in SessionIds : ChatResume(s)
    \/ \E s \in SessionIds :
           \E outcome \in ProviderOutcomes(Len(sessions[s].pulled) + 1) :
               InlineNext(s, outcome)
    \/ \E s \in SessionIds : GeneratorResume(s)
    \/ \E s \in SessionIds : Disconnect(s)

RelaySpec == Init /\ [][RelayNext]_vars

-----------------------------------------------------------------------------
(* main.py: the conversation chat_stream assembles for the provider,       *)
(* lines 238-259.  A turn is {"role": ..., "parts": [{"text": ...}]}.      *)

\* Number of ChatMessage turns in the history of a request.
MaxHistory == 2

\* ChatMessage: the roles a caller may send, and the contents.
ChatMessages ==
    [role : {"user", "assistant", "model", "User"}, content : {"a", "b"}]

\* The sequences of at most n messages.
RECURSIVE Histories(_)
Histories(n) ==
    IF n = 0 THEN {<<>>}
    ELSE LET shorter == Histories(n - 1)
         IN  shorter \cup {Append(h, m) : h \in {x \in shorter : Len(x) = n - 1},
                                          m \in ChatMessages}

\* ChatRequest with a history, and with none (history is None).
ChatRequestsWithHistory ==
    [question : {"why?"}, context : {"a passage"}, history : Histories(MaxHistory)]
        \cup [question : {"why?"}, context : {"a passage"}]

\* request.history, [] when it is None.
HistoryOf(request) ==
    IF "history" \in DOMAIN request THEN request.history ELSE <<>>

\* {"role": role, "parts": [{"text": text}]}
Turn(role, text) == [role |-> role, parts |-> <<[text |-> text]>>]

\* Lines 239 and 245-248, of a request with no page.
context_message(request) ==
    "Context:\n" \o request.context
        \o "\n\nI'll be asking questions about this context. Please help me understand it."

\* Line 250.
Acknowledgement ==
    "I'll help you understand this context. What would you like to know?"

\* Faulty variant of chat_stream_contents: only "assistant" becomes model.
chat_stream_contents_assistant(request) ==
    LET history == HistoryOf(request)
    IN  <<Turn("user", context_message(request)), Turn("model", Acknowledgement)>>
            \o [i \in 1..Len(history) |->
                   Turn(IF history[i].role = "assistant" THEN "model" ELSE "user",
                        history[i].content)]
            \o <<Turn("user", request.question)>>

\* Lines 242-259: contents as the provider gets it.
chat_stream_contents(request) ==
    LET history == HistoryOf(request)
    IN  <<Turn("user", context_message(request)), Turn("model", Acknowledgement)>>
            \o [i \in 1..Len(history) |->
                   Turn(IF history[i].role = "user" THEN "user" ELSE "model",
                        history[i].content)]
            \o <<Turn("user", request.question)>>

\* A chat request has reached event_generator; contents = [] (line 242).
AssemblyInit ==
    /\ jobs_storage = EmptyDict
    /\ tasks = <<>>
    /\ running = 0
    /\ polled = None
    /\ sessions = [s \in SessionIds |-> IdleSession]
    /\ loop = 0
    /\ chat_request \in ChatRequestsWithHistory
    /\ contents = <<>>
    /\ ratio = 0
    /\ aspect_ratio_str = ""
    /\ iterable = NoIterable
    /\ iteration = NewIteration

\* event_generator assembles the conversation.
Assemble ==
    /\ contents = <<>>
    /\ contents' = chat_stream_contents(chat_request)
    /\ UNCHANGED <<chat_request, job_vars, relay_vars, annotate_vars, iterate_vars>>

AssemblyNext == Assemble

AssemblySpec == AssemblyInit /\ [][AssemblyNext]_vars

-----------------------------------------------------------------------------
(* The aspect ratio of equation_annotate as a function of the ratio.       *)

\* An equation_annotate request with some aspect_ratio has passed validation.
AspectRatioInit ==
    /\ jobs_storage = EmptyDict
    /\ tasks = <<>>
    /\ running = 0
    /\ polled = None
    /\ sessions = [s \in SessionIds |-> IdleSession]
    /\ loop = 0
    /\ chat_request = None
    /\ contents = <<>>
    /\ ratio \in Ratios
    /\ aspect_ratio_str = ""
    /\ iterable = NoIterable
    /\ iteration = NewIteration

\* Lines 489-501.
AspectRatio ==
    /\ aspect_ratio_str = ""
    /\ aspect_ratio_str' = equation_annotate_aspect_ratio(ratio)
    /\ UNCHANGED <<ratio, job_vars, relay_vars, assembly_vars, iterate_vars>>

AspectRatioNext == AspectRatio

AspectRatioSpec == AspectRatioInit /\ [][AspectRatioNext]_vars

-----------------------------------------------------------------------------
(* iterate_in_thread over a sync iterable, driven by a consumer that takes *)
(* every element (async for).                                              *)

IterateInit ==
    /\ jobs_storage = EmptyDict
    /\ tasks = <<>>
    /\ running = 0
    /\ polled = None
    /\ sessions = [s \in SessionIds |-> IdleSession]
    /\ loop = 0
    /\ chat_request = None
    /\ contents = <<>>
    /\ ratio = 0
    /\ aspect_ratio_str = ""
    /\ iterable \in Iterables
    /\ iteration = NewIteration

\* The consumer asks for the next element: the generator starts, or goes on
\* after its yield, and awaits asyncio.to_thread(get_next, iterator), line 70.
IterateAnext ==
    /\ iteration.pc \in {"created", "yielded"}
    /\ iteration' = [iteration EXCEPT !.pc = "awaiting"]
    /\ UNCHANGED <<iterable, job_vars, relay_vars, assembly_vars, annotate_vars>>

\* The thread runs get_next(iterator), lines 62-66: one pull on the iterator.
IterateGetNext ==
    /\ iteration.pc = "awaiting"
    /\ iteration.result = NoResult
    /\ iteration' = [iteration EXCEPT
           !.pulls = @ + 1,
           !.result = get_next(iterator_next(iterable, iteration.pulls + 1))]
    /\ UNCHANGED <<iterable, job_vars, relay_vars, assembly_vars, annotate_vars>>

\* The generator resumes with the result of the thread, lines 70-73.
IterateResume ==
    /\ iteration.pc = "awaiting"
    /\ iteration.result # NoResult
    /\ LET r == iterate_in_thread(iteration.yielded, iteration.result)
       IN  iteration' = [iteration EXCEPT !.pc = r.pc,
                                          !.yielded = r.yielded,
                                          !.error = r.error,
                                          !.result = NoResult]
    /\ UNCHANGED <<iterable, job_vars, relay_vars, assembly_vars, annotate_vars>>

IterateNext ==
    \/ IterateAnext
    \/ IterateGetNext
    \/ IterateResume

IterateSpec == IterateInit /\ [][IterateNext]_vars

-----------------------------------------------------------------------------
(* Vocabulary of the properties.                                           *)

Terminal == {"complete", "failed"}

\* The job ids generate_learning_plan has returned so far.
Returned == {tasks[t].job_id : t \in 1..Len(tasks)}

\* No two generate_learning_plan calls have drawn the same 8 hex digits.
NoIdReuse ==
    \A s, t \in 1..Len(tasks) : s # t => tasks[s].job_id # tasks[t].job_id

\* The step is a step of some process_learning_plan task.
TaskActs == Len(tasks') = Len(tasks) /\ tasks' # tasks

\* The step is the last step of task t.
TaskFinishes(t) == tasks[t].pc # "done" /\ TaskActs /\ tasks'[t].pc = "done"

\* The status changes of the job state machine.
AllowedStatusChanges ==
    {<<"queued", "processing">>, <<"processing", "complete">>,
     <<"processing", "failed">>}

\* Record j exists before and after the step and its status differs.
StatusChanges(j) ==
    /\ j \in DOMAIN jobs_storage
    /\ j \in DOMAIN jobs_storage'
    /\ jobs_storage'[j]["status"] # jobs_storage[j]["status"]

-----------------------------------------------------------------------------
(* C1.                                                                     *)

\* C1: every change of a job's persisted status that a step of
\* process_learning_plan makes is queued -> processing, processing -> complete
\* or processing -> failed.
C1_StatusChangesAllowed ==
    [][\A j \in JobIds :
         (TaskActs /\ StatusChanges(j)) =>
             <<jobs_storage[j]["status"], jobs_storage'[j]["status"]>>
                 \in AllowedStatusChanges]_vars

\* C1, in the runs where no job id is drawn twice: the same property.
C1_StatusChangesAllowedWithoutReuse ==
    [][\A j \in JobIds :
         (NoIdReuse /\ TaskActs /\ StatusChanges(j)) =>
             <<jobs_storage[j]["status"], jobs_storage'[j]["status"]>>
                 \in AllowedStatusChanges]_vars

-----------------------------------------------------------------------------
(* C2.                                                                     *)

\* C2: once a stored record is complete or failed, no step changes any field
\* of it.
C2_TerminalRecordImmutable ==
    [][\A j \in JobIds :
         (j \in DOMAIN jobs_storage /\ jobs_storage[j]["status"] \in Terminal)
             => (j \in DOMAIN jobs_storage' /\ jobs_storage'[j] = jobs_storage[j])
      ]_vars

\* C2, in the runs where no job id is drawn twice: the same property.
C2_TerminalRecordImmutableWithoutReuse ==
    [][\A j \in JobIds :
         (NoIdReuse' /\ j \in DOMAIN jobs_storage
            /\ jobs_storage[j]["status"] \in Terminal)
             => (j \in DOMAIN jobs_storage' /\ jobs_storage'[j] = jobs_storage[j])
      ]_vars

-----------------------------------------------------------------------------
(* C3.                                                                     *)

\* C3: every task the event loop was given ends, and at its end the stored
\* record of its job is complete or failed, whether the provider call returned
\* or raised and whether the text parsed or not.
C3_TaskEndsInTerminalWrite ==
    \A t \in 1..MaxJobs :
        (Len(tasks) >= t) ~>
            (/\ Len(tasks) >= t
             /\ tasks[t].pc = "done"
             /\ tasks[t].job_id \in DOMAIN jobs_storage
             /\ jobs_storage[tasks[t].job_id]["status"] \in Terminal)

\* C3 happens: a task whose provider call was made has ended with its job
\* stored as failed.
C3_Witness ==
    \E t \in 1..Len(tasks) :
        /\ tasks[t].pc = "done"
        /\ tasks[t].calls = 1
        /\ jobs_storage[tasks[t].job_id]["status"] = "failed"
        /\ running = 0

-----------------------------------------------------------------------------
(* C4.                                                                     *)

\* C4: every stored record has exactly the field its status selects:
\* processing has progress and neither plan nor error, complete has plan and
\* neither progress nor error, failed has error and neither progress nor plan.
C4_FieldsMatchStatus ==
    \A j \in DOMAIN jobs_storage :
        LET job    == jobs_storage[j]
            status == job["status"]
            has(k) == k \in DOMAIN job
        IN  /\ status = "processing" =>
                   has("progress") /\ ~has("plan") /\ ~has("error")
            /\ status = "complete" =>
                   has("plan") /\ ~has("progress") /\ ~has("error")
            /\ status = "failed" =>
                   has("error") /\ ~has("progress") /\ ~has("plan")

\* C4, of the complete records alone, in the runs where no job id is drawn
\* twice: the write of status complete leaves progress in the record.
C4_CompleteClearsProgress ==
    \A j \in DOMAIN jobs_storage :
        (NoIdReuse /\ jobs_storage[j]["status"] = "complete")
            => "progress" \notin DOMAIN jobs_storage[j]

-----------------------------------------------------------------------------
(* C5.                                                                     *)

ExtraFields == {"progress", "plan", "error"}

\* The one extra field a status selects.
ExtraOf(status) ==
    CASE status = "processing" -> {"progress"}
      [] status = "complete"   -> {"plan"}
      [] status = "failed"     -> {"error"}
      [] OTHER                 -> {}

\* C5: for every stored job, the view get_learning_plan_status returns holds
\* the job id, the stored status and exactly the extra field the status
\* selects, with the stored value; and no response ever returned holds two of
\* progress, plan and error.
C5_StatusView ==
    /\ \A j \in DOMAIN jobs_storage :
           LET job  == jobs_storage[j]
               view == get_learning_plan_status(jobs_storage, j).response
           IN  /\ DOMAIN view = {"job_id", "status"} \cup ExtraOf(job["status"])
               /\ view["job_id"] = j
               /\ view["status"] = job["status"]
               /\ \A k \in ExtraOf(job["status"]) :
                      k \in DOMAIN job /\ view[k] = job[k]
    /\ polled # None =>
           Cardinality(DOMAIN polled.response \cap ExtraFields) <= 1

\* C5 happens: a poll has returned the view of a complete job, with its plan.
C5_Witness ==
    /\ polled # None
    /\ DOMAIN polled.response = {"job_id", "status", "plan"}
    /\ polled.response["status"] = "complete"
    /\ polled.response["plan"] = "dict(weeks=4)"

-----------------------------------------------------------------------------
(* C6.                                                                     *)

\* C6: a poll of an id that generate_learning_plan has returned never fails
\* with 404, and a poll that runs before the job's task has taken its first
\* step returns status queued.
C6_ExistsAndQueuedBeforeStart ==
    running = 0 =>
        \A t \in 1..Len(tasks) :
            LET view == get_learning_plan_status(jobs_storage,
                                                 tasks[t].job_id).response
            IN  /\ view # HTTP404
                /\ tasks[t].pc = "scheduled" => view["status"] = "queued"

\* C6, in the runs where no job id is drawn twice: the same property.
C6_ExistsAndQueuedBeforeStartWithoutReuse ==
    (NoIdReuse /\ running = 0) =>
        \A t \in 1..Len(tasks) :
            LET view == get_learning_plan_status(jobs_storage,
                                                 tasks[t].job_id).response
            IN  /\ view # HTTP404
                /\ tasks[t].pc = "scheduled" => view["status"] = "queued"

-----------------------------------------------------------------------------
(* C7.                                                                     *)

\* C7: in every state, get_learning_plan_status on an id that
\* generate_learning_plan never returned answers 404, and so did the last
\* poll if its id was never returned.
C7_UnknownIdNotFound ==
    /\ \A j \in QueryIds \ Returned :
           get_learning_plan_status(jobs_storage, j).response = HTTP404
    /\ (polled # None /\ polled.job_id \notin Returned) =>
           polled.response = HTTP404

\* C7 happens: a poll of an id never returned got 404 while another job is
\* stored in a terminal state.
C7_Witness ==
    /\ polled # None
    /\ polled.job_id \notin Returned
    /\ polled.response = HTTP404
    /\ \E j \in DOMAIN jobs_storage : jobs_storage[j]["status"] \in Terminal

-----------------------------------------------------------------------------
(* C8.                                                                     *)

\* C8: a get_learning_plan_status call, found or not found, leaves the job
\* store as it was.
C8_GetStatusReadOnly ==
    [][\A j \in QueryIds : GetStatus(j) => jobs_storage' = jobs_storage]_vars

\* C8 happens: a poll has returned the view of a stored terminal job, and the
\* record is still the one the view was made from.
C8_Witness ==
    /\ polled # None
    /\ polled.response # HTTP404
    /\ polled.job_id \in DOMAIN jobs_storage
    /\ jobs_storage[polled.job_id]["status"] = "failed"
    /\ polled.response =
           get_learning_plan_status(jobs_storage, polled.job_id).response

-----------------------------------------------------------------------------
(* C9.                                                                     *)

\* The response is the view of a job in a terminal state.
TerminalView(r) == "status" \in DOMAIN r /\ r["status"] \in Terminal

\* C9: when a poll has returned the view of a terminal job, the next poll of
\* the same id returns the same view, whatever ran in between.
C9_TerminalPollsAgree ==
    [][\A j \in QueryIds :
         (/\ polled # None
          /\ polled.job_id = j
          /\ TerminalView(polled.response)
          /\ GetStatus(j)) => polled'.response = polled.response]_vars

\* C9, in the runs where no job id is drawn twice: the same property.
C9_TerminalPollsAgreeWithoutReuse ==
    [][\A j \in QueryIds :
         (/\ NoIdReuse
          /\ polled # None
          /\ polled.job_id = j
          /\ TerminalView(polled.response)
          /\ GetStatus(j)) => polled'.response = polled.response]_vars

-----------------------------------------------------------------------------
(* C10.                                                                    *)

\* The last step of task t is the except branch.
TaskRaises(t) ==
    \/ TaskStart(t) /\ tasks'[t].pc = "done"
    \/ TaskFormatRaises(t)
    \/ \E e \in ProviderErrors : TaskProviderRaises(t, e)
    \/ \E text \in ProviderTexts :
           ~json_loads(text).ok /\ TaskProviderReturns(t, text)

\* A task ends with its job failed exactly when something raised, and with its
\* job complete exactly when the provider returned and the text parsed; the
\* provider was called at most once.
EndsByOutcome(t) ==
    LET job == jobs_storage'[tasks[t].job_id]
    IN  /\ tasks'[t].calls <= 1
        /\ job["status"] = "failed" <=> TaskRaises(t)
        /\ job["status"] = "complete" <=> ~TaskRaises(t)
        /\ job["status"] = "failed" => "error" \in DOMAIN job

\* C10: EndsByOutcome, and the error of a failed job is a non-empty text.
C10_FailedIffRaisedNonEmptyError ==
    [][\A t \in 1..Len(tasks) :
         TaskFinishes(t) =>
             /\ EndsByOutcome(t)
             /\ LET job == jobs_storage'[tasks[t].job_id]
                IN  job["status"] = "failed" => job["error"] # ""]_vars

\* C10 without the non-empty part: EndsByOutcome alone.
C10_FailedIffRaised ==
    [][\A t \in 1..Len(tasks) : TaskFinishes(t) => EndsByOutcome(t)]_vars

-----------------------------------------------------------------------------
(* C11.                                                                    *)

\* The step is a generate_learning_plan call.
EnqueueActs == Len(tasks') = Len(tasks) + 1

\* C11: the id a generate_learning_plan call allocates is not the key of a
\* record already in the job store, and was not returned by an earlier call.
C11_EnqueueAllocatesFreshId ==
    [][EnqueueActs =>
           /\ tasks'[Len(tasks')].job_id \notin DOMAIN jobs_storage
           /\ tasks'[Len(tasks')].job_id \notin Returned]_vars

\* C11, of what the call does to the other records: it leaves every record
\* stored under another id as it was.
C11_EnqueueKeepsOtherRecords ==
    [][EnqueueActs =>
           \A j \in DOMAIN jobs_storage :
               j # tasks'[Len(tasks')].job_id =>
                   j \in DOMAIN jobs_storage' /\ jobs_storage'[j] = jobs_storage[j]
      ]_vars

-----------------------------------------------------------------------------
(* C12.                                                                    *)

\* The provider call of task t is in flight.
ProviderCallInFlight(t) == tasks[t].pc = "calling"

\* C12: while the provider call of a job is in flight, a poll of the job can
\* run, and it returns status processing with the progress message
\* "Running deep research...".
C12_PollServedDuringProviderCall ==
    \A t \in 1..Len(tasks) :
        ProviderCallInFlight(t) =>
            /\ ENABLED GetStatus(tasks[t].job_id)
            /\ get_learning_plan_status(jobs_storage, tasks[t].job_id).response
                   = [job_id |-> tasks[t].job_id, status |-> "processing",
                      progress |-> "Running deep research..."]

\* C12, of the store alone: while the provider call of a job is in flight the
\* stored record is processing with the progress message last written.
C12_StoredProgressDuringProviderCall ==
    \A t \in 1..Len(tasks) :
        ProviderCallInFlight(t) =>
            LET job == jobs_storage[tasks[t].job_id]
            IN  /\ job["status"] = "processing"
                /\ job["progress"] = "Running deep research..."

\* C12, of the polls that do run: no poll ever returns status processing.
C12_NoPollSeesProcessing ==
    polled # None =>
        ("status" \in DOMAIN polled.response
            => polled.response["status"] # "processing")

-----------------------------------------------------------------------------
(* Vocabulary of the relay properties.                                     *)

IsTextFrame(f) == DOMAIN f = {"text"}
IsDoneFrame(f) == DOMAIN f = {"done"}
IsErrorFrame(f) == DOMAIN f = {"error"}

\* The positions of the frames of one kind.
TextFrames(frames) == {i \in 1..Len(frames) : IsTextFrame(frames[i])}
DoneFrames(frames) == {i \in 1..Len(frames) : IsDoneFrame(frames[i])}
ErrorFrames(frames) == {i \in 1..Len(frames) : IsErrorFrame(frames[i])}

\* The session is one of a streaming endpoint whose request passed validation.
Streaming(session) ==
    session.endpoint \in StreamEndpoints /\ session.pc # "rejected"

\* Building the request or a pull on the provider's stream raised.
ProviderFailed(session) == session.ended \in {"build", "raised"}

\* The stream of the session ended with the done marker.
EndedWithDone(session) ==
    /\ session.pc = "closed"
    /\ session.frames # <<>>
    /\ IsDoneFrame(session.frames[Len(session.frames)])

-----------------------------------------------------------------------------
(* C13.                                                                    *)

\* C13: in a chat_stream session whose request is valid and whose provider
\* does not fail, every frame is a text frame or the done marker, the done
\* marker is in the last position only and the generator has returned then
\* (no frame comes after it), and a stream that is closed has exactly one.
C13_ChatTextFramesThenDone ==
    \A s \in SessionIds :
        LET session == sessions[s]
            frames == session.frames
        IN  (session.endpoint = "chat_stream" /\ Streaming(session)
                /\ ~ProviderFailed(session)) =>
                /\ \A i \in 1..Len(frames) :
                       IsTextFrame(frames[i]) \/ frames[i] = DoneFrame
                /\ \A i \in DoneFrames(frames) :
                       i = Len(frames) /\ session.pc = "closed"
                /\ session.pc = "closed" => Cardinality(DoneFrames(frames)) = 1

\* A chat stream of two text frames and the done marker, the provider's stream
\* having run out.
C13_Witness ==
    \E s \in SessionIds :
        /\ sessions[s].endpoint = "chat_stream"
        /\ sessions[s].pc = "closed"
        /\ sessions[s].ended = "StopIteration"
        /\ sessions[s].frames = <<TextFrame("1"), TextFrame("2"), DoneFrame>>

-----------------------------------------------------------------------------
(* C14.                                                                    *)

\* C14: in a session of any of the four streaming endpoints an error frame is
\* in the last position only and the generator has returned then, no stream
\* holds both an error frame and a done marker, and a stream that is closed
\* after building the request or a pull raised e has exactly one error frame,
\* its last frame, carrying e.
C14_FailureEndsInOneErrorFrame ==
    \A s \in SessionIds :
        LET session == sessions[s]
            frames == session.frames
        IN  Streaming(session) =>
                /\ \A i \in ErrorFrames(frames) :
                       i = Len(frames) /\ session.pc = "closed"
                /\ ErrorFrames(frames) = {} \/ DoneFrames(frames) = {}
                /\ (ProviderFailed(session) /\ session.pc = "closed") =>
                       /\ Cardinality(ErrorFrames(frames)) = 1
                       /\ frames[Len(frames)] = ErrorFrame(session.error)

\* A pull of an inline session raised after a text frame was sent, and a pull
\* of a chat session raised; both streams are closed.
C14_Witness ==
    \E s, c \in SessionIds :
        /\ sessions[s].endpoint \in InlineEndpoints
        /\ sessions[s].pc = "closed"
        /\ sessions[s].ended = "raised"
        /\ Len(sessions[s].frames) = 2
        /\ sessions[c].endpoint = "chat_stream"
        /\ sessions[c].pc = "closed"
        /\ sessions[c].ended = "raised"

-----------------------------------------------------------------------------
(* C15.                                                                    *)

\* The texts of the text frames, in the order of the frames.
FrameTexts(frames) ==
    LET text_frames == SelectSeq(frames, IsTextFrame)
    IN  [i \in 1..Len(text_frames) |-> text_frames[i].text]

\* The texts of the chunks that have one, in the order of the pulls.
HasText(chunk) == chunk # None /\ chunk.text # ""
PulledTexts(pulled) ==
    LET text_chunks == SelectSeq(pulled, HasText)
    IN  [i \in 1..Len(text_chunks) |-> text_chunks[i].text]

IsPrefix(a, b) == Len(a) <= Len(b) /\ \A i \in 1..Len(a) : a[i] = b[i]

\* C15: in every session the texts of the text frames are, in order, the
\* texts of the first chunks with text that the provider produced (the n-th
\* chunk carries the text "n", so none is moved, sent twice or joined with
\* another); a chat session has at most one pull in a thread at any time and
\* an inline session has none.
C15_FramesInProviderOrder ==
    \A s \in SessionIds :
        LET session == sessions[s]
        IN  Streaming(session) =>
                /\ IsPrefix(FrameTexts(session.frames), PulledTexts(session.pulled))
                /\ session.inflight <= 1
                /\ session.endpoint \in InlineEndpoints => session.inflight = 0

\* A chat session and an inline session have each sent two text frames.
C15_Witness ==
    \E s, c \in SessionIds :
        /\ sessions[s].endpoint \in InlineEndpoints
        /\ FrameTexts(sessions[s].frames) = <<"1", "2">>
        /\ sessions[c].endpoint = "chat_stream"
        /\ FrameTexts(sessions[c].frames) = <<"1", "2">>

-----------------------------------------------------------------------------
(* C16.                                                                    *)

\* C16: in a stream that ended with the done marker the number of text frames
\* is the number of chunks the provider produced.
C16_OneFramePerChunk ==
    \A s \in SessionIds :
        (Streaming(sessions[s]) /\ EndedWithDone(sessions[s])) =>
            Cardinality(TextFrames(sessions[s].frames)) = Len(sessions[s].pulled)

\* C16 amended: in a stream that ended with the done marker the text frames
\* are, one for one and in order, the chunks with a non-empty text that the
\* provider produced; a chunk with no text gets no frame.
C16_OneFramePerTextChunk ==
    \A s \in SessionIds :
        (Streaming(sessions[s]) /\ EndedWithDone(sessions[s])) =>
            FrameTexts(sessions[s].frames) = PulledTexts(sessions[s].pulled)

\* A stream ended with the done marker after a chunk with no text and a chunk
\* with text.
C16_Witness ==
    \E s \in SessionIds :
        /\ EndedWithDone(sessions[s])
        /\ sessions[s].pulled = <<[text |-> ""], [text |-> "2"]>>
        /\ sessions[s].frames = <<TextFrame("2"), DoneFrame>>

-----------------------------------------------------------------------------
(* C17.                                                                    *)

\* The session waits for next(iterator) to come back.
WaitsForChunk(session) ==
    \/ session.pc = "pulling"
    \/ session.pc = "awaiting" /\ session.result = NoResult

\* The generator of the session is due to run on the event loop.
DueOnLoop(session) ==
    \/ session.pc \in {"open", "yielded"}
    \/ session.pc = "awaiting" /\ session.result # NoResult

\* C17: while a session of any streaming endpoint waits for its next chunk,
\* every other session whose generator is due can take its step.
C17_WaitingSessionLeavesLoopFree ==
    \A s, o \in SessionIds :
        (s # o /\ WaitsForChunk(sessions[s]) /\ DueOnLoop(sessions[o])) =>
            ENABLED LoopStep(o)

\* C17 of chat_stream alone: while a chat session waits for its next chunk,
\* every other session whose generator is due can take its step.
C17_WaitingChatLeavesLoopFree ==
    \A s, o \in SessionIds :
        (s # o /\ sessions[s].endpoint = "chat_stream"
            /\ WaitsForChunk(sessions[s]) /\ DueOnLoop(sessions[o])) =>
            ENABLED LoopStep(o)

-----------------------------------------------------------------------------
(* C18.                                                                    *)

\* The provider behaved the same in two sessions: the same chunks, the same
\* end of the stream, the same failure.
SameProviderBehaviour(a, b) ==
    /\ a.pulled = b.pulled
    /\ a.ended = b.ended
    /\ a.error = b.error

\* C18: two closed streams, of any of the four streaming endpoints, whose
\* provider behaved the same hold the same frames.
C18_SameBehaviourSameFrames ==
    \A a, b \in SessionIds :
        (Streaming(sessions[a]) /\ Streaming(sessions[b])
            /\ sessions[a].pc = "closed" /\ sessions[b].pc = "closed"
            /\ SameProviderBehaviour(sessions[a], sessions[b])) =>
            sessions[a].frames = sessions[b].frames

\* C18 without null chunks: the same, of the streams in which every chunk the
\* provider produced is a chunk object.
C18_SameBehaviourSameFramesWithoutNull ==
    \A a, b \in SessionIds :
        (Streaming(sessions[a]) /\ Streaming(sessions[b])
            /\ sessions[a].pc = "closed" /\ sessions[b].pc = "closed"
            /\ SameProviderBehaviour(sessions[a], sessions[b])
            /\ \A i \in 1..Len(sessions[a].pulled) : sessions[a].pulled[i] # None) =>
            sessions[a].frames = sessions[b].frames

-----------------------------------------------------------------------------
(* C19.                                                                    *)

\* C19: the conversation assembled from a chat request with a history of n
\* turns has n + 3 turns: a user turn with the context, the model's
\* acknowledgement, the n history turns in their order, each with role user
\* when the supplied role is exactly "user" and model otherwise, and a last
\* user turn with the question.
C19_ConversationHasHistoryPlusThreeTurns ==
    contents # <<>> =>
        LET history == HistoryOf(chat_request)
            n == Len(history)
        IN  /\ Len(contents) = n + 3
            /\ contents[1] = Turn("user", context_message(chat_request))
            /\ contents[2].role = "model"
            /\ \A i \in 1..n :
                   /\ (history[i].role = "user") => contents[2 + i].role = "user"
                   /\ (history[i].role # "user") => contents[2 + i].role = "model"
                   /\ contents[2 + i].parts = <<[text |-> history[i].content]>>
            /\ contents[n + 3] = Turn("user", chat_request.question)

\* A conversation assembled from a history of two turns, the first sent with
\* the role "User" and the second with the role "user".
C19_Witness ==
    /\ Len(contents) = 5
    /\ Len(HistoryOf(chat_request)) = 2
    /\ chat_request.history[1].role = "User"
    /\ contents[3].role = "model"
    /\ chat_request.history[2].role = "user"
    /\ contents[4].role = "user"

-----------------------------------------------------------------------------
(* C20.                                                                    *)

\* A required field of the request of the session is empty.
RequiredMissing(session) ==
    \/ /\ session.endpoint = "chat_stream"
       /\ session.request.question = "" \/ session.request.context = ""
    \/ /\ session.endpoint = "formula_explain"
       /\ session.request.formula = ""
    \/ /\ session.endpoint \in {"figure_explain", "equation_explain", "equation_annotate"}
       /\ session.request.image_base64 = ""
    \/ /\ session.endpoint = "equation_annotate"
       /\ session.request.question = ""

\* C20: the handler of a request with an empty required field answers 400
\* and has emitted no frame, made no provider call and started no pull, the
\* job store and the tasks are as they were; and nothing happens in a
\* rejected session afterwards.
C20_InvalidRequestRejectedBeforeSideEffects ==
    [][\A s \in SessionIds :
           /\ (sessions[s].pc = "idle" /\ sessions'[s].pc # "idle"
                  /\ RequiredMissing(sessions'[s])) =>
                  /\ sessions'[s].pc = "rejected"
                  /\ sessions'[s].response.status_code = "400"
                  /\ sessions'[s].frames = <<>>
                  /\ sessions'[s].provider_calls = 0
                  /\ sessions'[s].pulled = <<>>
                  /\ sessions'[s].inflight = 0
                  /\ loop' = loop
                  /\ jobs_storage' = jobs_storage
                  /\ tasks' = tasks
           /\ sessions[s].pc = "rejected" => sessions'[s] = sessions[s]
      ]_vars

\* A chat request with an empty context and an equation_annotate request
\* with an empty question have been rejected.
C20_Witness ==
    \E s, o \in SessionIds :
        /\ sessions[s].endpoint = "chat_stream"
        /\ sessions[s].request = [question |-> "why?", context |-> ""]
        /\ sessions[s].pc = "rejected"
        /\ sessions[o].endpoint = "equation_annotate"
        /\ sessions[o].request.question = ""
        /\ sessions[o].request.image_base64 # ""
        /\ sessions[o].pc = "rejected"

-----------------------------------------------------------------------------
(* C23.                                                                    *)

\* The ids whose record a step writes, adds or removes.
WrittenIds ==
    {j \in (DOMAIN jobs_storage) \cup (DOMAIN jobs_storage') :
        \/ j \notin DOMAIN jobs_storage
        \/ j \notin DOMAIN jobs_storage'
        \/ jobs_storage'[j] # jobs_storage[j]}

\* The id a step of the job manager works for: the id a
\* generate_learning_plan call allocates, or the id of the task that runs.
ActingIds ==
    {tasks'[t].job_id : t \in {u \in 1..Len(tasks') :
                                  u > Len(tasks) \/ tasks'[u] # tasks[u]}}

\* C23: under every interleaving of generate_learning_plan calls, task steps
\* and get_learning_plan_status calls, a step changes the record of no id but
\* the one it works for: every record stored under another id is present and
\* the same after the step.
C23_WriteKeepsOtherRecords ==
    [][/\ WrittenIds \subseteq ActingIds
       /\ \A j \in DOMAIN jobs_storage :
              j \notin ActingIds =>
                  j \in DOMAIN jobs_storage' /\ jobs_storage'[j] = jobs_storage[j]
      ]_vars

\* Two jobs with different ids have both run to their end, one after the
\* other was stored: the store holds both terminal records.
C23_Witness ==
    /\ Len(tasks) = 2
    /\ tasks[1].job_id # tasks[2].job_id
    /\ tasks[1].pc = "done"
    /\ tasks[2].pc = "done"
    /\ \A t \in 1..2 :
           /\ tasks[t].job_id \in DOMAIN jobs_storage
           /\ jobs_storage[tasks[t].job_id]["status"] \in {"complete", "failed"}

-----------------------------------------------------------------------------
(* C22.                                                                    *)

\* The five buckets of the claim.
Buckets == {"16:9", "4:3", "1:1", "3:4", "9:16"}

\* C22: the bucket is decided by the ratio alone: above 2.2 it is 16:9,
\* above 1.5 and up to 2.2 it is 4:3, above 0.9 and up to 1.5 it is 1:1,
\* above 0.6 and up to 0.9 it is 3:4, up to 0.6 it is 9:16; it is always one
\* of the five, and a ratio equal to a threshold gets the bucket below it.
C22_BucketByExclusiveLowerBounds ==
    aspect_ratio_str # "" =>
        /\ aspect_ratio_str \in Buckets
        /\ aspect_ratio_str = "16:9" <=> ratio > 220
        /\ aspect_ratio_str = "4:3" <=> (150 < ratio /\ ratio <= 220)
        /\ aspect_ratio_str = "1:1" <=> (90 < ratio /\ ratio <= 150)
        /\ aspect_ratio_str = "3:4" <=> (60 < ratio /\ ratio <= 90)
        /\ aspect_ratio_str = "9:16" <=> ratio <= 60
        /\ ratio = 220 => aspect_ratio_str = "4:3"
        /\ ratio = 150 => aspect_ratio_str = "1:1"
        /\ ratio = 90 => aspect_ratio_str = "3:4"
        /\ ratio = 60 => aspect_ratio_str = "9:16"

\* The ratio 2.2 has got its bucket, 4:3.
C22_Witness ==
    /\ ratio = 220
    /\ aspect_ratio_str = "4:3"

-----------------------------------------------------------------------------
(* C24.                                                                    *)

\* The position of the first None among the elements, one past the last
\* element if there is none: the number of the pull that ends the iteration.
LastPull(elements) ==
    LET nones == {i \in 1..Len(elements) : elements[i] = None}
    IN  IF nones = {} THEN Len(elements) + 1
        ELSE CHOOSE i \in nones : \A k \in nones : i <= k

\* The elements before the first None.
BeforeNone(elements) == SubSeq(elements, 1, LastPull(elements) - 1)

\* C24: iterate_in_thread yields, in order, the elements before the first
\* None and nothing else; it makes no pull after the one that returned None,
\* raised StopIteration or raised an error; it stops when a pull returned
\* None or raised StopIteration, all elements before yielded; and when a pull
\* raised an error, the consumer gets that error and the iteration is over.
C24_YieldsUpToFirstNone ==
    LET elements == iterable.elements
        last == LastPull(elements)
        no_none == last = Len(elements) + 1
    IN  /\ IsPrefix(iteration.yielded, BeforeNone(elements))
        /\ iteration.pulls <= last
        /\ iteration.pc = "stopped" =>
               /\ iteration.yielded = BeforeNone(elements)
               /\ iteration.pulls = last
               /\ no_none => iterable.end = StopIteration
        /\ iteration.pc = "raised" =>
               /\ no_none
               /\ iterable.end # StopIteration
               /\ iteration.error = iterable.end.raised
               /\ iteration.yielded = elements
               /\ iteration.pulls = last
        /\ (iteration.pulls = last /\ iteration.result = NoResult) =>
               iteration.pc \in {"stopped", "raised"}

\* The iteration over <<None, chunk>> has stopped after one pull with nothing
\* yielded.
C24_Witness ==
    /\ iterable.elements = <<None, [text |-> "2"]>>
    /\ iteration.pc = "stopped"
    /\ iteration.pulls = 1
    /\ iteration.yielded = <<>>

\* The iteration over two chunks whose third pull raises has handed the error
\* to the consumer after yielding both.
C24_WitnessRaised ==
    /\ Len(iterable.elements) = 2
    /\ iteration.pc = "raised"
    /\ iteration.error = "503 UNAVAILABLE"
    /\ Len(iteration.yielded) = 2

-----------------------------------------------------------------------------
(* C21.                                                                    *)

\* The pulls on the provider's iterator the session has begun: those that
\* came back, and the one that is in a thread or in progress on the loop.
PullsBegun(session) ==
    Len(session.pulled)
        + (IF session.ended \in {"StopIteration", "raised"} THEN 1 ELSE 0)
        + session.inflight
        + (IF session.pc = "pulling" THEN 1 ELSE 0)

\* C21: the step in which the server sees the disconnect of a session emits
\* no frame and begins no pull, and from then on the session emits no frame
\* and begins no pull; a pull of a chat session that was in a thread at that
\* moment comes back, and nothing is done with it.
C21_NoPullNoFrameAfterDisconnect ==
    [][\A s \in SessionIds :
           (sessions[s].pc = "cancelled" \/ sessions'[s].pc = "cancelled") =>
               /\ sessions'[s].pc = "cancelled"
               /\ sessions'[s].frames = sessions[s].frames
               /\ PullsBegun(sessions'[s]) = PullsBegun(sessions[s])
               /\ sessions'[s].result = NoResult
      ]_vars

\* A chat session was cancelled after one text frame while its second pull
\* was in a thread: the pull is still out.
C21_Witness ==
    \E s \in SessionIds :
        /\ sessions[s].endpoint = "chat_stream"
        /\ sessions[s].pc = "cancelled"
        /\ sessions[s].inflight = 1
        /\ sessions[s].pulled = <<[text |-> "1"]>>
        /\ sessions[s].frames = <<TextFrame("1")>>

\* The pull that was out has come back with a chunk with text, and no frame
\* was made of it.
C21_WitnessPullBack ==
    \E s \in SessionIds :
        /\ sessions[s].endpoint = "chat_stream"
        /\ sessions[s].pc = "cancelled"
        /\ sessions[s].inflight = 0
        /\ sessions[s].pulled = <<[text |-> "1"], [text |-> "2"]>>
        /\ sessions[s].frames = <<TextFrame("1")>>

====
